---- MODULE Spec2Model ----
(***************************************************************************)
(* AIDA day planner: a model of aida/planner.py (plan_day and the interval *)
(* and scoring helpers it calls) over the records of aida/models.py.       *)
(* Spec runs plan_day; SpecIntervals, SpecScore and SpecConstruct call the *)
(* interval helpers, the scorer and the record constructors on their own.  *)
(*                                                                         *)
(* Instants are integers: minutes since midnight of the planning day, so   *)
(* a timedelta is a difference of integers, .hour is (t \div 60) % 24 and  *)
(* timedelta.days is a floor division by MinutesPerDay.  An Optional value *)
(* is a sequence of length at most one: None is << >>, a value x is <<x>>.  *)
(***************************************************************************)
EXTENDS Integers, Sequences, FiniteSets, TLC

VARIABLES
    request,              \* the PlanRequest handed to plan_day
    pc,                   \* position inside plan_day
    call,                 \* 1 during the first call on the request, 2 in the second
    tasks,                \* the working pool (planner.py:127)
    free_intervals,       \* planner.py:141
    interval_idx,         \* how many free intervals the outer for loop has taken
    free_end,             \* end of the free interval being filled
    current_time,         \* the packing cursor
    all_blocks,           \* planner.py:156
    scheduled_task_ids,   \* planner.py:157
    current_cycle_count,  \* planner.py:158
    best_task,            \* the task being placed, or None
    cycle,                \* the inner for loop's index
    response,             \* the PlanResponse returned, or None
    raised,               \* the exception plan_day ended with, or None
    first_outcome,        \* <<response, raised>> of the first call, or None
    arg,                  \* the argument of a helper or constructor called on its own
    result,               \* what that call returned, or None
    current_timer,        \* api.py:17, the service's global timer: None or a reference
    timers,               \* the PomodoroTimer objects created so far
    loops,                \* the executions of PomodoroTimer.start and .resume
    reply                 \* the status of the last timer request answered, or None

timer_vars == <<current_timer, timers, loops, reply>>

vars == <<timer_vars, arg, result, request, pc, call, tasks, free_intervals, interval_idx, free_end,
          current_time, all_blocks, scheduled_task_ids, current_cycle_count,
          best_task, cycle, response, raised, first_outcome>>

None == << >>
Some(x) == <<x>>

----------------------------------------------------------------------------
(* Bounds of the model.                                                    *)

MaxTasks == 2
MaxEvents == 1

(* Program constants.                                                      *)

MinutesPerDay == 1440
BufferMinutes == 5

----------------------------------------------------------------------------
(* Generic helpers.                                                        *)

Max(a, b) == IF a >= b THEN a ELSE b

Range(s) == {s[i] : i \in 1..Len(s)}

RECURSIVE SumSeq(_)
SumSeq(s) == IF s = <<>> THEN 0 ELSE Head(s) + SumSeq(Tail(s))

\* math.ceil(a / b) for a >= 0, b > 0
Ceil(a, b) == (a + b - 1) \div b

\* list.sort / sorted: a stable sort of s, ascending in key[i], the key of s[i]
StableSort(s, key) ==
    LET n == Len(s)
        Before(j, i) == \/ key[j] < key[i]
                        \/ key[j] = key[i] /\ j < i
        Pos(i) == Cardinality({j \in 1..n : Before(j, i)}) + 1
    IN  [k \in 1..n |-> s[CHOOSE i \in 1..n : Pos(i) = k]]

\* list.index(x): position of the first element equal to x, counted from 0
IndexOf(s, x) == (CHOOSE i \in 1..Len(s) : s[i] = x /\ \A j \in 1..(i - 1) : s[j] # x) - 1

\* list.remove(x): drops the first element equal to x
Remove(s, x) ==
    LET i == IndexOf(s, x) + 1
    IN  SubSeq(s, 1, i - 1) \o SubSeq(s, i + 1, Len(s))

----------------------------------------------------------------------------
(* aida/models.py: the records and their construction-time validation.     *)
(* The emoji that prefix block titles are written as bracketed ASCII names. *)

\* Preferences.validate_positive_minutes covers these three fields only
PreferencesValid(p) ==
    /\ p.pomodoro_min > 0
    /\ p.break_min > 0
    /\ p.long_break_min > 0

\* Task: estimate_min = Field(ge=1), priority = Field(3, ge=1, le=5)
TaskValid(t) ==
    /\ t.estimate_min >= 1
    /\ t.priority >= 1
    /\ t.priority <= 5

\* Event.model_post_init
EventValid(e) == ~(e.start >= e.end)

\* Block.model_post_init
BlockValid(b) == ~(b.start >= b.end)

\* A timestamp as a constructor receives it: the minute, and tzinfo, None when
\* the timestamp carries no offset.
Stamp(minute, tzinfo) == [minute |-> minute, tzinfo |-> tzinfo]

\* validate_timezone_aware of Preferences, Event and Block: TRUE when v passes
validate_timezone_aware(v) == ~(v.tzinfo = None)

\* mutant: a deadline is never looked at
validate_deadline_timezone_Skipped(v) == TRUE

\* Task.validate_deadline_timezone: TRUE when v, an Optional timestamp, passes
validate_deadline_timezone(v) == ~(v # None /\ v[1].tzinfo = None)

\* a required field of type str: absent (None) fails, any string passes
RequiredStr(v) == v # None

\* Block.type
BlockTypes == {"event", "pomodoro", "break", "long_break"}

\* Preferences(**raw): TRUE when the object is constructed
PreferencesAccepted(raw) ==
    /\ validate_timezone_aware(raw.workday_start)
    /\ validate_timezone_aware(raw.workday_end)
    /\ PreferencesValid(raw)

\* Task(**raw)
TaskAccepted(raw) ==
    /\ RequiredStr(raw.title)
    /\ TaskValid(raw)
    /\ validate_deadline_timezone(raw.deadline)

\* Event(**raw): model_post_init compares the two instants
EventAccepted(raw) ==
    /\ validate_timezone_aware(raw.start)
    /\ validate_timezone_aware(raw.end)
    /\ RequiredStr(raw.title)
    /\ EventValid([start |-> raw.start.minute, end |-> raw.end.minute])

\* Block(**raw)
BlockAccepted(raw) ==
    /\ validate_timezone_aware(raw.start)
    /\ validate_timezone_aware(raw.end)
    /\ raw.type \in BlockTypes
    /\ RequiredStr(raw.title)
    /\ BlockValid([start |-> raw.start.minute, end |-> raw.end.minute])

\* Block.duration_minutes
duration_minutes(b) == b.end - b.start

Block(start, end, type, title, task_id) ==
    [start |-> start, end |-> end, type |-> type, title |-> title, task_id |-> task_id]

----------------------------------------------------------------------------
(* aida/planner.py: interval algebra.  An interval is a pair <<start, end>>. *)

\* mutant: intervals that only touch are not merged
RECURSIVE MergeFold_Strict(_, _)
MergeFold_Strict(merged, rest) ==
    IF rest = <<>> THEN merged
    ELSE LET current == Head(rest)
             last == merged[Len(merged)]
         IN  IF current[1] < last[2]
             THEN MergeFold_Strict([merged EXCEPT ![Len(merged)] =
                                        <<last[1], Max(last[2], current[2])>>], Tail(rest))
             ELSE MergeFold_Strict(Append(merged, current), Tail(rest))

RECURSIVE MergeFold(_, _)
MergeFold(merged, rest) ==
    IF rest = <<>> THEN merged
    ELSE LET current == Head(rest)
             last == merged[Len(merged)]
         IN  IF current[1] <= last[2]
             THEN MergeFold([merged EXCEPT ![Len(merged)] =
                                 <<last[1], Max(last[2], current[2])>>], Tail(rest))
             ELSE MergeFold(Append(merged, current), Tail(rest))

merge_intervals(intervals) ==
    IF intervals = <<>> THEN <<>>
    ELSE LET sorted_intervals ==
                 StableSort(intervals, [i \in 1..Len(intervals) |-> intervals[i][1]])
         IN  MergeFold(<<sorted_intervals[1]>>, Tail(sorted_intervals))

\* the loop of subtract_busy_time: returns <<free_intervals, current_start>>
RECURSIVE SubtractFold(_, _, _)
SubtractFold(free, current_start, merged_busy) ==
    IF merged_busy = <<>> THEN <<free, current_start>>
    ELSE LET busy_start == Head(merged_busy)[1]
             busy_end == Head(merged_busy)[2]
             free1 == IF current_start < busy_start
                      THEN Append(free, <<current_start, busy_start>>)
                      ELSE free
         IN  SubtractFold(free1, Max(current_start, busy_end), Tail(merged_busy))

subtract_busy_time(work_window, busy_intervals) ==
    IF busy_intervals = <<>> THEN <<work_window>>
    ELSE LET merged_busy == merge_intervals(busy_intervals)
             walked == SubtractFold(<<>>, work_window[1], merged_busy)
         IN  IF walked[2] < work_window[2]
             THEN Append(walked[1], <<walked[2], work_window[2]>>)
             ELSE walked[1]

add_event_buffers(events, buffer_minutes) ==
    [i \in 1..Len(events) |->
        <<events[i].start - buffer_minutes, events[i].end + buffer_minutes>>]

----------------------------------------------------------------------------
(* aida/planner.py: scoring, segmentation, block construction.             *)

\* datetime.hour
Hour(t) == (t \div 60) % 24

\* timedelta.days of (a - b): floors, also when negative
TimedeltaDays(a, b) == (a - b) \div MinutesPerDay

\* mutant: priority 1 taken as the highest
calculate_task_score_Inverted(task, at) ==
    LET base_score == 5 * (6 - task.priority)
        urgency == IF task.deadline # None
                   THEN Max(0, 10 - TimedeltaDays(task.deadline[1], at))
                   ELSE 0
        energy_match == IF task.requires_deep_work /\ 9 <= Hour(at) /\ Hour(at) < 12
                        THEN 2 ELSE 0
    IN  base_score + urgency + energy_match

\* mutant: urgency not clamped below at 0
calculate_task_score_Unclamped(task, at) ==
    LET base_score == 5 * task.priority
        urgency == IF task.deadline # None
                   THEN 10 - TimedeltaDays(task.deadline[1], at)
                   ELSE 0
        energy_match == IF task.requires_deep_work /\ 9 <= Hour(at) /\ Hour(at) < 12
                        THEN 2 ELSE 0
    IN  base_score + urgency + energy_match

\* mutant: the deadline is ignored
calculate_task_score_NoUrgency(task, at) ==
    LET base_score == 5 * task.priority
        energy_match == IF task.requires_deep_work /\ 9 <= Hour(at) /\ Hour(at) < 12
                        THEN 2 ELSE 0
    IN  base_score + energy_match

\* mutant: the morning window includes the hour of noon
calculate_task_score_NoonIncluded(task, at) ==
    LET base_score == 5 * task.priority
        urgency == IF task.deadline # None
                   THEN Max(0, 10 - TimedeltaDays(task.deadline[1], at))
                   ELSE 0
        energy_match == IF task.requires_deep_work /\ 9 <= Hour(at) /\ Hour(at) <= 12
                        THEN 2 ELSE 0
    IN  base_score + urgency + energy_match

calculate_task_score(task, at) ==
    LET base_score == 5 * task.priority
        urgency == IF task.deadline # None
                   THEN Max(0, 10 - TimedeltaDays(task.deadline[1], at))
                   ELSE 0
        energy_match == IF task.requires_deep_work /\ 9 <= Hour(at) /\ Hour(at) < 12
                        THEN 2 ELSE 0
    IN  base_score + urgency + energy_match

segment_task(task, pomodoro_minutes) == Ceil(task.estimate_min, pomodoro_minutes)

create_pomodoro_block(start_time, duration, task, block_type) ==
    LET end_time == start_time + duration
    IN  IF block_type = "pomodoro"
        THEN Block(start_time, end_time, block_type, "[tomato] " \o task.title, Some(task.id))
        ELSE IF block_type = "break"
        THEN Block(start_time, end_time, block_type, "[coffee] Break", None)
        ELSE Block(start_time, end_time, block_type, "[star] Long Break", None)

----------------------------------------------------------------------------
(* The requests plan_day is called with: every PlanRequest that the        *)
(* validators of aida/models.py accept, over small sets of field values.   *)

WorkdayStarts == {690}
WorkdayLengths == {0, 45, 90}
PomodoroMins == {0, 10, 15}
BreakMins == {5}
LongBreakMins == {5, 20}
CyclesPerLongBreak == {0, 1, 2}

PreferencesCandidates ==
    {[workday_start |-> ws, workday_end |-> ws + len, pomodoro_min |-> pm,
      break_min |-> bm, long_break_min |-> lb, cycles_per_long_break |-> c] :
        ws \in WorkdayStarts, len \in WorkdayLengths, pm \in PomodoroMins,
        bm \in BreakMins, lb \in LongBreakMins, c \in CyclesPerLongBreak}

\* <<estimate_min, priority, deadline, requires_deep_work>>
TaskShapes ==
    { <<25, 3, None, FALSE>>,
      <<25, 1, None, FALSE>>,
      <<10, 3, None, TRUE>>,
      <<10, 1, Some(690 + MinutesPerDay), FALSE>>,
      <<10, 1, Some(790 + MinutesPerDay), FALSE>>,
      <<0, 3, None, FALSE>>,
      <<10, 6, None, FALSE>> }

\* the i-th task of a request: ids are distinct (Task.id defaults to a fresh uuid4)
TaskCandidates(i) ==
    {[id |-> "task-" \o ToString(i), title |-> "Task " \o ToString(i),
      estimate_min |-> sh[1], priority |-> sh[2], deadline |-> sh[3],
      requires_deep_work |-> sh[4]] : sh \in TaskShapes}

EventStarts == {670, 690, 720, 740, 790}
EventLengths == {0, 10}

EventCandidates ==
    {[start |-> st, end |-> st + len, title |-> "Team meeting"] :
        st \in EventStarts, len \in EventLengths}

TaskLists ==
    UNION {{f \in [1..n -> UNION {TaskCandidates(i) : i \in 1..n}] :
                \A i \in 1..n : f[i] \in TaskCandidates(i) /\ TaskValid(f[i])} :
           n \in 0..MaxTasks}

EventLists ==
    UNION {[1..n -> {e \in EventCandidates : EventValid(e)}] : n \in 0..MaxEvents}

Requests ==
    {[preferences |-> p, tasks |-> t, events |-> e] :
        p \in {q \in PreferencesCandidates : PreferencesValid(q)},
        t \in TaskLists, e \in EventLists}

\* api.py:17: the service starts without a timer
NoTimer ==
    /\ current_timer = None
    /\ timers = <<>>
    /\ loops = <<>>
    /\ reply = None

Init ==
    /\ request \in Requests
    /\ pc = "call"
    /\ call = 1
    /\ tasks = <<>>
    /\ free_intervals = <<>>
    /\ interval_idx = 0
    /\ free_end = 0
    /\ current_time = 0
    /\ all_blocks = <<>>
    /\ scheduled_task_ids = {}
    /\ current_cycle_count = 0
    /\ best_task = None
    /\ cycle = 0
    /\ response = None
    /\ raised = None
    /\ first_outcome = None
    /\ arg = None
    /\ result = None
    /\ NoTimer

----------------------------------------------------------------------------
(* plan_day, planner.py:124-248, one action per step of its loops.         *)

prefs == request.preferences

\* mutant: the pool sorted by ascending score
SortedTasks_Ascending(req) ==
    StableSort(req.tasks,
               [i \in 1..Len(req.tasks) |->
                   calculate_task_score(req.tasks[i], req.preferences.workday_start)])

\* planner.py:127: sorted(..., reverse=True) keeps equal keys in input order
SortedTasks(req) ==
    StableSort(req.tasks,
               [i \in 1..Len(req.tasks) |->
                   0 - calculate_task_score(req.tasks[i], req.preferences.workday_start)])

\* planner.py:134-138
BusyIntervals(events) ==
    add_event_buffers(events, BufferMinutes)
        \o [i \in 1..Len(events) |-> <<events[i].start, events[i].end>>]

\* mutant: the event blocks take the buffered span
EventBlocks_Buffered(events) ==
    [i \in 1..Len(events) |->
        Block(events[i].start - BufferMinutes, events[i].end + BufferMinutes, "event",
              "[calendar] " \o events[i].title, None)]

\* planner.py:144-153
EventBlocks(events) ==
    [i \in 1..Len(events) |->
        Block(events[i].start, events[i].end, "event",
              "[calendar] " \o events[i].title, None)]

\* mutant: the work-unit counter outlives the call
PlanDayStart_KeepsCount ==
    /\ pc = "call"
    /\ tasks' = SortedTasks(request)
    /\ free_intervals' = subtract_busy_time(<<prefs.workday_start, prefs.workday_end>>,
                                            BusyIntervals(request.events))
    /\ all_blocks' = EventBlocks(request.events)
    /\ scheduled_task_ids' = {}
    /\ interval_idx' = 0
    /\ pc' = "for_interval"
    /\ UNCHANGED <<timer_vars, arg, result, request, call, free_end, current_time, best_task, cycle,
                   response, raised, first_outcome, current_cycle_count>>

\* planner.py:126-158
PlanDayStart ==
    /\ pc = "call"
    /\ tasks' = SortedTasks(request)
    /\ free_intervals' = subtract_busy_time(<<prefs.workday_start, prefs.workday_end>>,
                                            BusyIntervals(request.events))
    /\ all_blocks' = EventBlocks(request.events)
    /\ scheduled_task_ids' = {}
    /\ current_cycle_count' = 0
    /\ interval_idx' = 0
    /\ pc' = "for_interval"
    /\ UNCHANGED <<timer_vars, arg, result, request, call, free_end, current_time, best_task, cycle,
                   response, raised, first_outcome>>

\* planner.py:160-161: the outer for loop takes the next free interval
NextFreeInterval ==
    /\ pc = "for_interval"
    /\ interval_idx < Len(free_intervals)
    /\ interval_idx' = interval_idx + 1
    /\ current_time' = free_intervals[interval_idx + 1][1]
    /\ free_end' = free_intervals[interval_idx + 1][2]
    /\ pc' = "while"
    /\ UNCHANGED <<timer_vars, arg, result, request, call, tasks, free_intervals, all_blocks, scheduled_task_ids,
                   current_cycle_count, best_task, cycle, response, raised, first_outcome>>

\* mutant: the fit check reserves the work blocks only
TimeNeeded_WorkOnly(task) ==
    segment_task(task, prefs.pomodoro_min) * prefs.pomodoro_min

\* planner.py:172-177: the fit check of one task at the cursor
TimeNeeded(task) ==
    segment_task(task, prefs.pomodoro_min) * (prefs.pomodoro_min + prefs.break_min)

\* mutant: the fit check strict, a task that needs exactly the room left does not fit
Fits_Strict(task, cursor, end) == TimeNeeded(task) < end - cursor

Fits(task, cursor, end) == TimeNeeded(task) <= end - cursor

\* mutant: the scan scores every task at workday_start
RECURSIVE ScanPool_AtWorkdayStart(_, _, _, _, _, _)
ScanPool_AtWorkdayStart(pool, scheduled, cursor, end, best, best_score) ==
    IF pool = <<>> THEN best
    ELSE LET task == Head(pool)
             score == calculate_task_score(task, prefs.workday_start)
         IN  IF task.id \in scheduled
             THEN ScanPool_AtWorkdayStart(Tail(pool), scheduled, cursor, end, best, best_score)
             ELSE IF Fits(task, cursor, end) /\ score > best_score
             THEN ScanPool_AtWorkdayStart(Tail(pool), scheduled, cursor, end, Some(task), score)
             ELSE ScanPool_AtWorkdayStart(Tail(pool), scheduled, cursor, end, best, best_score)

\* mutant: on equal scores the task met last wins
RECURSIVE ScanPool_LastWins(_, _, _, _, _, _)
ScanPool_LastWins(pool, scheduled, cursor, end, best, best_score) ==
    IF pool = <<>> THEN best
    ELSE LET task == Head(pool)
             score == calculate_task_score(task, cursor)
         IN  IF task.id \in scheduled
             THEN ScanPool_LastWins(Tail(pool), scheduled, cursor, end, best, best_score)
             ELSE IF Fits(task, cursor, end) /\ score >= best_score
             THEN ScanPool_LastWins(Tail(pool), scheduled, cursor, end, Some(task), score)
             ELSE ScanPool_LastWins(Tail(pool), scheduled, cursor, end, best, best_score)

\* planner.py:165-181: the scan of the pool; returns None or Some(task)
RECURSIVE ScanPool(_, _, _, _, _, _)
ScanPool(pool, scheduled, cursor, end, best, best_score) ==
    IF pool = <<>> THEN best
    ELSE LET task == Head(pool)
             score == calculate_task_score(task, cursor)
         IN  IF task.id \in scheduled
             THEN ScanPool(Tail(pool), scheduled, cursor, end, best, best_score)
             ELSE IF Fits(task, cursor, end) /\ score > best_score
             THEN ScanPool(Tail(pool), scheduled, cursor, end, Some(task), score)
             ELSE ScanPool(Tail(pool), scheduled, cursor, end, best, best_score)

BestTask == ScanPool(tasks, scheduled_task_ids, current_time, free_end, None, -1)

\* mutant: the loop over a free interval stops after the day's first placement
WhileCondition_FirstOnly ==
    current_time < free_end /\ tasks # <<>> /\ scheduled_task_ids = {}

WhileCondition == current_time < free_end /\ tasks # <<>>

\* planner.py:163: the while condition fails, on to the next free interval
WhileExit ==
    /\ pc = "while"
    /\ ~WhileCondition
    /\ pc' = "for_interval"
    /\ UNCHANGED <<timer_vars, arg, result, request, call, tasks, free_intervals, interval_idx, free_end,
                   current_time, all_blocks, scheduled_task_ids, current_cycle_count,
                   best_task, cycle, response, raised, first_outcome>>

\* mutant: the tasks that do not fit are dropped from the pool
NoTaskFits_DropsPool ==
    /\ pc = "while"
    /\ WhileCondition
    /\ BestTask = None
    /\ best_task' = None
    /\ tasks' = <<>>
    /\ pc' = "for_interval"
    /\ UNCHANGED <<timer_vars, arg, result, request, call, free_intervals, interval_idx, free_end,
                   current_time, all_blocks, scheduled_task_ids, current_cycle_count,
                   cycle, response, raised, first_outcome>>

\* planner.py:183-184: no pooled task fits, break out of the while loop
NoTaskFits ==
    /\ pc = "while"
    /\ WhileCondition
    /\ BestTask = None
    /\ best_task' = None
    /\ pc' = "for_interval"
    /\ UNCHANGED <<timer_vars, arg, result, request, call, tasks, free_intervals, interval_idx, free_end,
                   current_time, all_blocks, scheduled_task_ids, current_cycle_count,
                   cycle, response, raised, first_outcome>>

\* mutant: the work-unit counter restarts with every task
SelectTask_ResetsCount ==
    /\ pc = "while"
    /\ WhileCondition
    /\ BestTask # None
    /\ best_task' = BestTask
    /\ cycle' = 0
    /\ current_cycle_count' = 0
    /\ pc' = "cycle"
    /\ UNCHANGED <<timer_vars, arg, result, request, call, tasks, free_intervals, interval_idx, free_end,
                   current_time, all_blocks, scheduled_task_ids,
                   response, raised, first_outcome>>

\* planner.py:165-187: a task is chosen
SelectTask ==
    /\ pc = "while"
    /\ WhileCondition
    /\ BestTask # None
    /\ best_task' = BestTask
    /\ cycle' = 0
    /\ pc' = "cycle"
    /\ UNCHANGED <<timer_vars, arg, result, request, call, tasks, free_intervals, interval_idx, free_end,
                   current_time, all_blocks, scheduled_task_ids, current_cycle_count,
                   response, raised, first_outcome>>

\* planner.py:187
CyclesNeeded == segment_task(best_task[1], prefs.pomodoro_min)

\* planner.py:194-199: the work block of the current cycle
PomodoroBlock ==
    create_pomodoro_block(current_time, prefs.pomodoro_min, best_task[1], "pomodoro")

AfterWork == current_time + prefs.pomodoro_min

\* planner.py:202: whether a break follows the work block of the current cycle
BreakWanted ==
    /\ \/ cycle < CyclesNeeded - 1
       \/ IndexOf(tasks, best_task[1]) < Len(tasks) - 1
    /\ AfterWork < free_end

\* planner.py:204-209: evaluated only when a break is wanted and the divisor is not 0
IsLongBreak == (current_cycle_count + 1) % prefs.cycles_per_long_break = 0

BreakBlock ==
    IF IsLongBreak
    THEN create_pomodoro_block(AfterWork, prefs.long_break_min, best_task[1], "long_break")
    ELSE create_pomodoro_block(AfterWork, prefs.break_min, best_task[1], "break")

\* what one cycle raises, or None: ZeroDivisionError from the % of planner.py:204,
\* ValueError from Block.model_post_init
CycleException ==
    IF ~BlockValid(PomodoroBlock) THEN Some("ValueError")
    ELSE IF BreakWanted /\ prefs.cycles_per_long_break = 0 THEN Some("ZeroDivisionError")
    ELSE IF BreakWanted /\ ~BlockValid(BreakBlock) THEN Some("ValueError")
    ELSE None

\* planner.py:189-215: one iteration of the inner for loop
PlaceCycle ==
    /\ pc = "cycle"
    /\ cycle < CyclesNeeded
    /\ ~(current_time >= free_end)
    /\ CycleException = None
    /\ current_cycle_count' = current_cycle_count + 1
    /\ IF BreakWanted
       THEN /\ all_blocks' = Append(Append(all_blocks, PomodoroBlock), BreakBlock)
            /\ current_time' = BreakBlock.end
       ELSE /\ all_blocks' = Append(all_blocks, PomodoroBlock)
            /\ current_time' = AfterWork
    /\ cycle' = cycle + 1
    /\ UNCHANGED <<timer_vars, arg, result, request, pc, call, tasks, free_intervals, interval_idx, free_end,
                   scheduled_task_ids, best_task, response, raised, first_outcome>>

\* an exception inside the inner loop ends plan_day
RaiseInCycle ==
    /\ pc = "cycle"
    /\ cycle < CyclesNeeded
    /\ ~(current_time >= free_end)
    /\ CycleException # None
    /\ raised' = CycleException
    /\ pc' = "raised"
    /\ UNCHANGED <<timer_vars, arg, result, request, call, tasks, free_intervals, interval_idx, free_end,
                   current_time, all_blocks, scheduled_task_ids, current_cycle_count,
                   best_task, cycle, response, first_outcome>>

\* mutant: the pool is the request's own list, a removal shows in the request
MarkScheduled_SharedList ==
    /\ scheduled_task_ids' = scheduled_task_ids \cup {best_task[1].id}
    /\ tasks' = Remove(tasks, best_task[1])
    /\ request' = [request EXCEPT !.tasks = Remove(request.tasks, best_task[1])]
    /\ pc' = "while"
    /\ UNCHANGED <<timer_vars, arg, result, call, free_intervals, interval_idx, free_end, current_time,
                   all_blocks, current_cycle_count, best_task, cycle, response, raised,
                   first_outcome>>

\* mutant: the placed task stays in the pool
MarkScheduled_NoRemove ==
    /\ scheduled_task_ids' = scheduled_task_ids \cup {best_task[1].id}
    /\ pc' = "while"
    /\ UNCHANGED <<timer_vars, arg, result, request, call, free_intervals, interval_idx, free_end, current_time,
                   all_blocks, current_cycle_count, best_task, cycle, response, raised,
                   first_outcome, tasks>>

\* planner.py:217-218
MarkScheduled ==
    /\ scheduled_task_ids' = scheduled_task_ids \cup {best_task[1].id}
    /\ tasks' = Remove(tasks, best_task[1])
    /\ pc' = "while"
    /\ UNCHANGED <<timer_vars, arg, result, request, call, free_intervals, interval_idx, free_end, current_time,
                   all_blocks, current_cycle_count, best_task, cycle, response, raised,
                   first_outcome>>

\* planner.py:189, 217-218: the inner loop ran all its cycles
FinishTask ==
    /\ pc = "cycle"
    /\ cycle = CyclesNeeded
    /\ MarkScheduled

\* mutant: the guard leaves the inner loop and the task stays in the pool
GuardBreak_KeepsTask ==
    /\ pc = "cycle"
    /\ cycle < CyclesNeeded
    /\ current_time >= free_end
    /\ pc' = "while"
    /\ UNCHANGED <<timer_vars, arg, result, request, call, free_intervals, interval_idx, free_end, current_time,
                   all_blocks, current_cycle_count, best_task, cycle, response, raised,
                   first_outcome, tasks, scheduled_task_ids>>

\* planner.py:191-192, 217-218: the guard leaves the inner loop before a cycle
GuardBreak ==
    /\ pc = "cycle"
    /\ cycle < CyclesNeeded
    /\ current_time >= free_end
    /\ MarkScheduled

----------------------------------------------------------------------------
(* plan_day, planner.py:220-248: the final sort and the summary.           *)

Pad2(n) == IF n < 10 THEN "0" \o ToString(n) ELSE ToString(n)

\* datetime.strftime('%H:%M')
StrftimeHM(t) == Pad2(Hour(t)) \o ":" \o Pad2(t % 60)

BlocksOfType(blocks, types) == SelectSeq(blocks, LAMBDA b : b.type \in types)

\* planner.py:233-237
DeepWorkWindows(req, pomodoro_blocks) ==
    LET Deep(b) == /\ b.task_id # None
                   /\ \E i \in 1..Len(req.tasks) :
                         /\ req.tasks[i].id = b.task_id[1]
                         /\ req.tasks[i].requires_deep_work
        deep == SelectSeq(pomodoro_blocks, Deep)
    IN  [i \in 1..Len(deep) |->
            StrftimeHM(deep[i].start) \o "-" \o StrftimeHM(deep[i].end)]

\* mutant: long breaks left out of the break total
Summary_ShortBreaksOnly(req, blocks, pool, scheduled) ==
    LET pomodoro_blocks == BlocksOfType(blocks, {"pomodoro"})
        break_blocks == BlocksOfType(blocks, {"break"})
        generated == BlocksOfType(blocks, {"pomodoro", "break", "long_break"})
        total_break_time ==
            SumSeq([i \in 1..Len(break_blocks) |-> duration_minutes(break_blocks[i])])
        total_scheduled_time ==
            SumSeq([i \in 1..Len(generated) |-> duration_minutes(generated[i])])
        work_day_minutes == req.preferences.workday_end - req.preferences.workday_start
    IN  [total_pomodoros |-> Len(pomodoro_blocks),
         total_break_time |-> total_break_time,
         scheduled_tasks |-> Cardinality(scheduled),
         unscheduled_tasks |-> [i \in 1..Len(pool) |-> pool[i].title],
         free_time_minutes |-> Max(0, work_day_minutes - total_scheduled_time),
         deep_work_windows |-> DeepWorkWindows(req, pomodoro_blocks)]

\* mutant: the free time is not clamped at 0
Summary_FreeUnclamped(req, blocks, pool, scheduled) ==
    LET pomodoro_blocks == BlocksOfType(blocks, {"pomodoro"})
        break_blocks == BlocksOfType(blocks, {"break", "long_break"})
        generated == BlocksOfType(blocks, {"pomodoro", "break", "long_break"})
        total_break_time ==
            SumSeq([i \in 1..Len(break_blocks) |-> duration_minutes(break_blocks[i])])
        total_scheduled_time ==
            SumSeq([i \in 1..Len(generated) |-> duration_minutes(generated[i])])
        work_day_minutes == req.preferences.workday_end - req.preferences.workday_start
    IN  [total_pomodoros |-> Len(pomodoro_blocks),
         total_break_time |-> total_break_time,
         scheduled_tasks |-> Cardinality(scheduled),
         unscheduled_tasks |-> [i \in 1..Len(pool) |-> pool[i].title],
         free_time_minutes |-> work_day_minutes - total_scheduled_time,
         deep_work_windows |-> DeepWorkWindows(req, pomodoro_blocks)]

\* planner.py:224-246
Summary(req, blocks, pool, scheduled) ==
    LET pomodoro_blocks == BlocksOfType(blocks, {"pomodoro"})
        break_blocks == BlocksOfType(blocks, {"break", "long_break"})
        generated == BlocksOfType(blocks, {"pomodoro", "break", "long_break"})
        total_break_time ==
            SumSeq([i \in 1..Len(break_blocks) |-> duration_minutes(break_blocks[i])])
        total_scheduled_time ==
            SumSeq([i \in 1..Len(generated) |-> duration_minutes(generated[i])])
        work_day_minutes == req.preferences.workday_end - req.preferences.workday_start
    IN  [total_pomodoros |-> Len(pomodoro_blocks),
         total_break_time |-> total_break_time,
         scheduled_tasks |-> Cardinality(scheduled),
         unscheduled_tasks |-> [i \in 1..Len(pool) |-> pool[i].title],
         free_time_minutes |-> Max(0, work_day_minutes - total_scheduled_time),
         deep_work_windows |-> DeepWorkWindows(req, pomodoro_blocks)]

\* mutant: the blocks are returned in the order they were appended
SortedBlocks_AsAppended(blocks) == blocks

\* planner.py:221
SortedBlocks(blocks) == StableSort(blocks, [i \in 1..Len(blocks) |-> blocks[i].start])

\* planner.py:160, 220-248: the free intervals are exhausted; sort, summarise, return
Summarize ==
    /\ pc = "for_interval"
    /\ interval_idx = Len(free_intervals)
    /\ all_blocks' = SortedBlocks(all_blocks)
    /\ response' = Some([blocks |-> all_blocks',
                         summary |-> Summary(request, all_blocks', tasks,
                                             scheduled_task_ids)])
    /\ pc' = "done"
    /\ UNCHANGED <<timer_vars, arg, result, request, call, tasks, free_intervals, interval_idx, free_end,
                   current_time, scheduled_task_ids, current_cycle_count, best_task,
                   cycle, raised, first_outcome>>

\* the caller calls plan_day again with the same request object
CallAgain ==
    /\ pc \in {"done", "raised"}
    /\ call = 1
    /\ first_outcome' = Some(<<response, raised>>)
    /\ call' = 2
    /\ response' = None
    /\ raised' = None
    /\ pc' = "call"
    /\ UNCHANGED <<timer_vars, arg, result, request, tasks, free_intervals, interval_idx, free_end, current_time,
                   all_blocks, scheduled_task_ids, current_cycle_count, best_task, cycle>>

Next ==
    \/ PlanDayStart
    \/ NextFreeInterval
    \/ WhileExit
    \/ NoTaskFits
    \/ SelectTask
    \/ PlaceCycle
    \/ RaiseInCycle
    \/ FinishTask
    \/ GuardBreak
    \/ Summarize
    \/ CallAgain

Spec == Init /\ [][Next]_vars

----------------------------------------------------------------------------
(* Properties of plan_day's result.                                        *)

Returned == pc = "done"

Blocks == response[1].blocks

SummaryOut == response[1].summary

GeneratedTypes == {"pomodoro", "break", "long_break"}

GeneratedIdx == {i \in 1..Len(Blocks) : Blocks[i].type \in GeneratedTypes}

PomodoroIdx == {i \in 1..Len(Blocks) : Blocks[i].type = "pomodoro"}

BreakIdx == {i \in 1..Len(Blocks) : Blocks[i].type \in {"break", "long_break"}}

EventIdx == {i \in 1..Len(Blocks) : Blocks[i].type = "event"}

PomodorosOf(task) == {i \in PomodoroIdx : Blocks[i].task_id = Some(task.id)}

RequestTasks == Range(request.tasks)

RECURSIVE SumOver(_, _)
SumOver(S, f) ==
    IF S = {} THEN 0
    ELSE LET x == CHOOSE y \in S : TRUE IN f[x] + SumOver(S \ {x}, f)

\* The data model's conditions that validation does not enforce: the workday is
\* not empty and the long-break cadence is positive.
WellFormed ==
    /\ prefs.workday_start < prefs.workday_end
    /\ prefs.cycles_per_long_break > 0

EventsInsideWorkday ==
    \A k \in 1..Len(request.events) :
        /\ prefs.workday_start <= request.events[k].start
        /\ request.events[k].end <= prefs.workday_end

\* C1: the returned blocks, in their returned (start-sorted) order, do not overlap
\* and each has start < end.  Stated for the validated requests that are also
\* WellFormed, so that a violation is a violation on a request the data model allows.
C1_BlocksDisjoint ==
    (Returned /\ WellFormed) =>
        /\ \A i \in 1..Len(Blocks) : Blocks[i].start < Blocks[i].end
        /\ \A i \in 1..(Len(Blocks) - 1) :
              /\ Blocks[i].start <= Blocks[i + 1].start
              /\ Blocks[i].end <= Blocks[i + 1].start

\* C2: every task of the request has either no pomodoro block or exactly
\* ceil(estimate_min / pomodoro_min) of them (on the WellFormed requests).
C2_TaskAtomic ==
    (Returned /\ WellFormed) =>
        \A t \in RequestTasks :
            Cardinality(PomodorosOf(t)) \in
                {0, Ceil(t.estimate_min, prefs.pomodoro_min)}

\* C3: no generated block (pomodoro, break, long_break) overlaps the span
\* [start, end) of an input event (on the WellFormed requests).
C3_EventSpanBlocked ==
    (Returned /\ WellFormed) =>
        \A i \in GeneratedIdx : \A k \in 1..Len(request.events) :
            \/ Blocks[i].end <= request.events[k].start
            \/ request.events[k].end <= Blocks[i].start

\* how many event blocks have this start, end and title
EventBlockCount(start, end, title) ==
    Cardinality({i \in EventIdx : /\ Blocks[i].start = start
                                  /\ Blocks[i].end = end
                                  /\ Blocks[i].title = title})

EventCount(e) == Cardinality({k \in 1..Len(request.events) : request.events[k] = e})

C5_InsideWorkday ==
    (Returned /\ WellFormed /\ EventsInsideWorkday) =>
        \A i \in 1..Len(Blocks) :
            /\ prefs.workday_start <= Blocks[i].start
            /\ Blocks[i].end <= prefs.workday_end

\* C6: plan_day never ends with an exception on a validated request.
C6_NeverRaises == pc # "raised"

\* C7: a second call on the same request returns what the first call returned.
C7_Idempotent ==
    (call = 2 /\ pc \in {"done", "raised"}) => <<response, raised>> = first_outcome[1]

C7_Witness ==
    /\ call = 2
    /\ Returned
    /\ Cardinality(PomodoroIdx) >= 4
    /\ \E i \in BreakIdx : Blocks[i].type = "long_break"

\* two tasks of equal estimate that differ only in priority (and in the id and
\* title that tell them apart), hi the one of higher priority
DifferOnlyInPriority(hi, lo) ==
    /\ hi.estimate_min = lo.estimate_min
    /\ hi.deadline = lo.deadline
    /\ hi.requires_deep_work = lo.requires_deep_work
    /\ hi.priority > lo.priority

FirstPomodoroOf(task) ==
    CHOOSE i \in PomodorosOf(task) : \A j \in PomodorosOf(task) : i <= j

\* C8: of two such tasks, in either input order, the lower-priority one is never
\* being placed while the higher-priority one is still in the pool; in the result
\* the lower one has work blocks only if the higher one has, and then after the
\* higher one's; and when only one is scheduled the other is reported unscheduled.
C8_PriorityFirst ==
    \A hi \in RequestTasks : \A lo \in RequestTasks :
        (Len(request.tasks) = 2 /\ DifferOnlyInPriority(hi, lo)) =>
            /\ (pc = "cycle" /\ best_task = Some(lo)) => hi \notin Range(tasks)
            /\ Returned =>
                  /\ PomodorosOf(lo) # {} => PomodorosOf(hi) # {}
                  /\ (PomodorosOf(lo) # {} /\ PomodorosOf(hi) # {}) =>
                        FirstPomodoroOf(hi) < FirstPomodoroOf(lo)
                  /\ (PomodorosOf(hi) # {} /\ PomodorosOf(lo) = {}) =>
                        /\ lo.title \in Range(SummaryOut.unscheduled_tasks)
                        /\ hi.title \notin Range(SummaryOut.unscheduled_tasks)

\* the free time admitted only one of the two: the higher one, given second in the input
C8_Witness ==
    /\ Returned
    /\ Len(request.tasks) = 2
    /\ DifferOnlyInPriority(request.tasks[2], request.tasks[1])
    /\ PomodorosOf(request.tasks[2]) # {}
    /\ PomodorosOf(request.tasks[1]) = {}
    /\ SummaryOut.unscheduled_tasks = <<request.tasks[1].title>>

\* C9: total_pomodoros is the number of pomodoro blocks returned and
\* total_break_time the sum of the minutes of the break and long_break blocks returned.
C9_SummaryCounts ==
    Returned =>
        /\ SummaryOut.total_pomodoros = Cardinality(PomodoroIdx)
        /\ SummaryOut.total_break_time =
              SumOver(BreakIdx, [i \in BreakIdx |-> Blocks[i].end - Blocks[i].start])

C9_Witness ==
    /\ Returned
    /\ \E i \in BreakIdx : Blocks[i].type = "break"
    /\ \E i \in BreakIdx : Blocks[i].type = "long_break"
    /\ prefs.long_break_min # prefs.break_min
    /\ Cardinality(PomodoroIdx) >= 3

Referenced(task) == PomodorosOf(task) # {}

\* C10: scheduled_tasks is the number of distinct task ids on pomodoro blocks,
\* unscheduled_tasks holds exactly the titles of the tasks no pomodoro block
\* refers to, once each, and the two add up to the number of tasks.  (The tasks
\* of a request carry distinct ids, as TaskCandidates gives them.)
C10_SummaryPartition ==
    Returned =>
        /\ SummaryOut.scheduled_tasks =
              Cardinality({Blocks[i].task_id : i \in PomodoroIdx})
        /\ \A t \in RequestTasks :
              Cardinality({k \in 1..Len(SummaryOut.unscheduled_tasks) :
                              SummaryOut.unscheduled_tasks[k] = t.title})
                  = Cardinality({u \in RequestTasks : u.title = t.title /\ ~Referenced(u)})
        /\ Range(SummaryOut.unscheduled_tasks) \subseteq {t.title : t \in RequestTasks}
        /\ SummaryOut.scheduled_tasks + Len(SummaryOut.unscheduled_tasks)
              = Len(request.tasks)

C10_Witness ==
    /\ Returned
    /\ Len(request.tasks) = 2
    /\ SummaryOut.scheduled_tasks = 1
    /\ Len(SummaryOut.unscheduled_tasks) = 1

----------------------------------------------------------------------------
(* The helpers and constructors called on their own.  plan_day's variables *)
(* stay as they are before a call.                                         *)

PlanDayIdle ==
    /\ request = None
    /\ call = 1
    /\ tasks = <<>>
    /\ free_intervals = <<>>
    /\ interval_idx = 0
    /\ free_end = 0
    /\ current_time = 0
    /\ all_blocks = <<>>
    /\ scheduled_task_ids = {}
    /\ current_cycle_count = 0
    /\ best_task = None
    /\ cycle = 0
    /\ response = None
    /\ raised = None
    /\ first_outcome = None

PlanDayUntouched ==
    UNCHANGED <<request, call, tasks, free_intervals, interval_idx, free_end,
                current_time, all_blocks, scheduled_task_ids, current_cycle_count,
                best_task, cycle, response, raised, first_outcome>>

----------------------------------------------------------------------------
(* merge_intervals and subtract_busy_time on lists of intervals whose ends *)
(* are among a few instants of one day.                                    *)

MaxIntervals == 2

\* 08:00, 09:00, 10:00, 10:30, 11:00, 12:00, 17:00, 18:00
Instants == {480, 540, 600, 630, 660, 720, 1020, 1080}

Intervals == {<<a, b>> : a \in Instants, b \in Instants} \cap
             {iv \in Instants \X Instants : iv[1] < iv[2]}

IntervalLists == UNION {[1..n -> Intervals] : n \in 0..MaxIntervals}

WorkWindows == { <<540, 1020>>, <<600, 720>> }

InitIntervals ==
    /\ arg \in {[work_window |-> w, busy_intervals |-> b] :
                    w \in WorkWindows, b \in IntervalLists}
    /\ result = None
    /\ pc = "intervals"
    /\ PlanDayIdle
    /\ NoTimer

CallMergeIntervals ==
    /\ pc = "intervals"
    /\ result' = Some(merge_intervals(arg.busy_intervals))
    /\ pc' = "merged"
    /\ UNCHANGED arg
    /\ PlanDayUntouched
    /\ UNCHANGED timer_vars

CallSubtractBusyTime ==
    /\ pc = "intervals"
    /\ result' = Some(subtract_busy_time(arg.work_window, arg.busy_intervals))
    /\ pc' = "subtracted"
    /\ UNCHANGED arg
    /\ PlanDayUntouched
    /\ UNCHANGED timer_vars

NextIntervals == CallMergeIntervals \/ CallSubtractBusyTime

SpecIntervals == InitIntervals /\ [][NextIntervals]_vars

\* the instants p whose stretch up to the next instant is covered by the list;
\* every end of every interval is an instant, so this is the list's union
Covered(list) ==
    {p \in Instants : \E i \in 1..Len(list) : list[i][1] <= p /\ p < list[i][2]}

EndsAreInstants(list) ==
    \A i \in 1..Len(list) : list[i][1] \in Instants /\ list[i][2] \in Instants

\* each interval is non-empty and starts strictly after the previous one ends
Separated(list) ==
    /\ \A i \in 1..Len(list) : list[i][1] < list[i][2]
    /\ \A i \in 1..(Len(list) - 1) : list[i][2] < list[i + 1][1]

\* C11: subtract_busy_time returns the window minus the union of the busy
\* intervals: free intervals inside the window, disjoint from every busy
\* interval, in chronological order, maximal, and covering all the rest.
C11_FreeIsWindowMinusBusy ==
    pc = "subtracted" =>
        LET free == result[1]
            w == arg.work_window
            busy == arg.busy_intervals
        IN  /\ EndsAreInstants(free)
            /\ \A i \in 1..Len(free) : w[1] <= free[i][1] /\ free[i][2] <= w[2]
            /\ \A i \in 1..Len(free) : \A k \in 1..Len(busy) :
                  free[i][2] <= busy[k][1] \/ busy[k][2] <= free[i][1]
            /\ Separated(free)
            /\ Covered(free) = {p \in Instants : w[1] <= p /\ p < w[2]} \ Covered(busy)

\* C12: merge_intervals returns intervals sorted by start, each starting
\* strictly after the previous one ends, whose union is the union of the input;
\* the empty list gives the empty list and a list already sorted and separated
\* is returned as it is.
C12_MergeIsUnion ==
    pc = "merged" =>
        LET merged == result[1]
            given == arg.busy_intervals
        IN  /\ EndsAreInstants(merged)
            /\ Separated(merged)
            /\ Covered(merged) = Covered(given)
            /\ given = <<>> => merged = <<>>
            /\ Separated(given) => merged = given

\* two intervals that touch, given the later one first, merged into one
C12_Witness ==
    /\ pc = "merged"
    /\ Len(arg.busy_intervals) = 2
    /\ arg.busy_intervals[2][2] = arg.busy_intervals[1][1]
    /\ result = Some(<< <<arg.busy_intervals[2][1], arg.busy_intervals[1][2]>> >>)

----------------------------------------------------------------------------
(* calculate_task_score called directly, on one task at one instant.       *)

MaxDaysAhead == 12
MaxDaysOverdue == 3

\* 08:59, 09:00, 10:00, 11:59, 12:00, 23:00, and 10:00 of the next day
ScoreInstants == {539, 540, 600, 719, 720, 1380, MinutesPerDay + 600}

\* the deadline relative to the instant: whole days, a minute more, a minute less than a day more
DeadlineOffsets ==
    {d * MinutesPerDay + m : d \in (0 - MaxDaysOverdue)..MaxDaysAhead,
                            m \in {0, 1, MinutesPerDay - 1}}

Priorities == 1..5

ScoreArgs ==
    {[task |-> [id |-> "task-1", title |-> "Task 1", estimate_min |-> 25,
                priority |-> p, deadline |-> dl, requires_deep_work |-> deep],
      current_time |-> at] :
        p \in Priorities, deep \in BOOLEAN, at \in ScoreInstants,
        dl \in {None} \cup {Some(t0 + off) : off \in DeadlineOffsets, t0 \in ScoreInstants}}

InitScore ==
    /\ arg \in {a \in ScoreArgs : TaskValid(a.task)}
    /\ result = None
    /\ pc = "score"
    /\ PlanDayIdle
    /\ NoTimer

CallScore ==
    /\ pc = "score"
    /\ result' = Some(calculate_task_score(arg.task, arg.current_time))
    /\ pc' = "scored"
    /\ UNCHANGED arg
    /\ PlanDayUntouched
    /\ UNCHANGED timer_vars

NextScore == CallScore

SpecScore == InitScore /\ [][NextScore]_vars

\* what the deadline adds: the score less the score of the same task without deadline
UrgencyTerm ==
    result[1] - calculate_task_score([arg.task EXCEPT !.deadline = None], arg.current_time)

\* whole days from the instant to the deadline, rounded down (negative when overdue)
DaysToDeadline ==
    CHOOSE d \in (0 - (MaxDaysOverdue + 3))..(MaxDaysAhead + 3) :
        /\ d * MinutesPerDay <= arg.task.deadline[1] - arg.current_time
        /\ arg.task.deadline[1] - arg.current_time < (d + 1) * MinutesPerDay

\* the hour of the instant is 9, 10 or 11
InMorning ==
    \E h \in 9..11 : /\ h * 60 <= arg.current_time % MinutesPerDay
                     /\ arg.current_time % MinutesPerDay < (h + 1) * 60

\* C13 (as stated): with a deadline the urgency term is 10 minus the whole
\* days to the deadline, whatever the deadline, and it is 0 only without a
\* deadline.
C13_UrgencyUnclamped ==
    pc = "scored" =>
        /\ arg.task.deadline # None => UrgencyTerm = 10 - DaysToDeadline
        /\ UrgencyTerm = 0 => arg.task.deadline = None

\* C13 (amended): with a deadline the urgency term is 10 minus the whole days
\* to the deadline, but never less than 0: a deadline ten days or more away
\* adds 0, as no deadline does; an overdue deadline adds more than 10.
C13_UrgencyClamped ==
    pc = "scored" =>
        /\ arg.task.deadline = None => UrgencyTerm = 0
        /\ arg.task.deadline # None =>
              /\ UrgencyTerm = Max(0, 10 - DaysToDeadline)
              /\ DaysToDeadline >= 10 => UrgencyTerm = 0
              /\ DaysToDeadline < 0 => UrgencyTerm > 10

\* a deadline twelve days away adds nothing to a priority-3 task
C13_Witness ==
    /\ pc = "scored"
    /\ arg.task.priority = 3
    /\ ~arg.task.requires_deep_work
    /\ arg.task.deadline = Some(arg.current_time + 12 * MinutesPerDay)
    /\ result = Some(15)

\* C14: a task whose deadline is one day away scores strictly higher than
\* the same task without deadline, at the same instant.
C14_DeadlineRaisesScore ==
    (pc = "scored" /\ arg.task.deadline # None /\ DaysToDeadline = 1) =>
        result[1] > calculate_task_score([arg.task EXCEPT !.deadline = None],
                                         arg.current_time)

\* priority 3, deadline exactly one day away: 15 + 9
C14_Witness ==
    /\ pc = "scored"
    /\ arg.task.priority = 3
    /\ ~arg.task.requires_deep_work
    /\ arg.task.deadline = Some(arg.current_time + MinutesPerDay)
    /\ result = Some(24)

\* C15: the score is 5 times the priority, plus the urgency term (0 without
\* deadline, else 10 minus the whole days to the deadline and at least 0),
\* plus 2 exactly when the task requires deep work and the hour of the
\* instant is 9, 10 or 11; a priority-3 task without deadline scores 15, and
\* 17 if it requires deep work at 10:00.
C15_ScoreIsSum ==
    pc = "scored" =>
        LET urgency == IF arg.task.deadline = None THEN 0
                       ELSE Max(0, 10 - DaysToDeadline)
            energyMatch == IF arg.task.requires_deep_work /\ InMorning THEN 2 ELSE 0
        IN  /\ result[1] = 5 * arg.task.priority + urgency + energyMatch
            /\ (arg.task.priority = 3 /\ arg.task.deadline = None) =>
                  result[1] = IF arg.task.requires_deep_work /\ InMorning THEN 17 ELSE 15

\* deep work at 10:00 scores 17, and the same task at 12:00 would score 15
C15_Witness ==
    /\ pc = "scored"
    /\ arg.task.priority = 3
    /\ arg.task.deadline = None
    /\ arg.task.requires_deep_work
    /\ arg.current_time = 600
    /\ result = Some(17)
    /\ calculate_task_score(arg.task, 720) = 15

----------------------------------------------------------------------------
(* The constructors of aida/models.py called directly on raw field values. *)

\* 09:00 and 17:00, with and without offset
RawStamps == {Stamp(m, tz) : m \in {540, 1020}, tz \in {None, Some("+00:00")}}

RawMinutes == {0 - 5, 0, 25}

RawCycles == {0 - 1, 0, 4}

\* absent, empty, present
RawTitles == {None, Some(""), Some("Write report")}

RawPreferences ==
    {[cls |-> "Preferences", workday_start |-> ws, workday_end |-> we,
      pomodoro_min |-> pm, break_min |-> bm, long_break_min |-> lb,
      cycles_per_long_break |-> c] :
        ws \in RawStamps, we \in RawStamps, pm \in RawMinutes, bm \in RawMinutes,
        lb \in RawMinutes, c \in RawCycles}

RawTasks ==
    {[cls |-> "Task", title |-> t, estimate_min |-> e, priority |-> p, deadline |-> dl] :
        t \in RawTitles, e \in {0, 1, 50}, p \in {0, 1, 5, 6},
        dl \in {None} \cup {Some(st) : st \in RawStamps}}

RawEvents ==
    {[cls |-> "Event", start |-> st, end |-> en, title |-> t] :
        st \in RawStamps, en \in RawStamps, t \in RawTitles}

RawBlocks ==
    {[cls |-> "Block", start |-> st, end |-> en, type |-> ty, title |-> t] :
        st \in RawStamps, en \in RawStamps, ty \in BlockTypes \cup {"work"},
        t \in RawTitles}

InitConstruct ==
    /\ arg \in RawPreferences \cup RawTasks \cup RawEvents \cup RawBlocks
    /\ result = None
    /\ pc = "construct"
    /\ PlanDayIdle
    /\ NoTimer

ConstructPreferences ==
    /\ pc = "construct"
    /\ arg.cls = "Preferences"
    /\ result' = Some([accepted |-> PreferencesAccepted(arg)])
    /\ pc' = "constructed"
    /\ UNCHANGED arg
    /\ PlanDayUntouched
    /\ UNCHANGED timer_vars

ConstructTask ==
    /\ pc = "construct"
    /\ arg.cls = "Task"
    /\ result' = Some([accepted |-> TaskAccepted(arg)])
    /\ pc' = "constructed"
    /\ UNCHANGED arg
    /\ PlanDayUntouched
    /\ UNCHANGED timer_vars

ConstructEvent ==
    /\ pc = "construct"
    /\ arg.cls = "Event"
    /\ result' = Some([accepted |-> EventAccepted(arg)])
    /\ pc' = "constructed"
    /\ UNCHANGED arg
    /\ PlanDayUntouched
    /\ UNCHANGED timer_vars

ConstructBlock ==
    /\ pc = "construct"
    /\ arg.cls = "Block"
    /\ result' = Some([accepted |-> BlockAccepted(arg)])
    /\ pc' = "constructed"
    /\ UNCHANGED arg
    /\ PlanDayUntouched
    /\ UNCHANGED timer_vars

NextConstruct == ConstructPreferences \/ ConstructTask \/ ConstructEvent \/ ConstructBlock

SpecConstruct == InitConstruct /\ [][NextConstruct]_vars

Constructed(cls) == pc = "constructed" /\ arg.cls = cls

Rejected == ~result[1].accepted

\* C16: Preferences with pomodoro_min, break_min, long_break_min or
\* cycles_per_long_break not strictly positive is rejected at construction
\* (seen here on preferences whose workday is a proper one).
C16_DurationsPositive ==
    (/\ Constructed("Preferences")
     /\ arg.workday_start.minute < arg.workday_end.minute
     /\ \/ arg.pomodoro_min <= 0
        \/ arg.break_min <= 0
        \/ arg.long_break_min <= 0
        \/ arg.cycles_per_long_break <= 0) => Rejected

\* C17: a record whose start is not strictly before its end is rejected at
\* construction: Preferences (workday_start, workday_end; seen here with a
\* positive cycles_per_long_break), Event and Block.
C17_StartBeforeEnd ==
    /\ (/\ Constructed("Preferences")
        /\ arg.cycles_per_long_break > 0
        /\ arg.workday_start.minute >= arg.workday_end.minute) => Rejected
    /\ ((Constructed("Event") \/ Constructed("Block")) /\ arg.start.minute >= arg.end.minute)
          => Rejected

\* C18: a Task or an Event with an empty title is rejected at construction.
C18_EmptyTitleRejected ==
    ((Constructed("Task") \/ Constructed("Event")) /\ arg.title = Some("")) => Rejected

\* the timestamps of a raw record that carry no offset
NaiveStamps ==
    IF arg.cls = "Preferences"
    THEN {st \in {arg.workday_start, arg.workday_end} : st.tzinfo = None}
    ELSE IF arg.cls = "Task"
    THEN {st \in Range(arg.deadline) : st.tzinfo = None}
    ELSE {st \in {arg.start, arg.end} : st.tzinfo = None}

\* C19: a timestamp without offset is rejected wherever it appears
\* (workday_start, workday_end, a deadline when present, start and end of an
\* Event and of a Block), so every timestamp of an accepted record has one.
C19_NaiveRejected ==
    pc = "constructed" => (NaiveStamps # {} => Rejected)

\* a task valid in every other field is rejected for its deadline without offset
C19_Witness ==
    /\ Constructed("Task")
    /\ arg.title = Some("Write report")
    /\ arg.estimate_min = 50
    /\ arg.priority = 5
    /\ arg.deadline = Some(Stamp(1020, None))
    /\ Rejected
    /\ TaskAccepted([arg EXCEPT !.deadline = Some(Stamp(1020, Some("+00:00")))])

----------------------------------------------------------------------------
(* Properties of one placement, seen when the inner loop is left.          *)

\* planner.py:189-192, 217: the inner for loop is about to be left
LeavingInnerLoop ==
    /\ pc = "cycle"
    /\ \/ cycle = CyclesNeeded
       \/ current_time >= free_end

\* the blocks appended for the task being placed: all_blocks from the first
\* work block of that task on (ids are distinct, a task is placed once)
PlacementBlocks ==
    LET mine == {i \in 1..Len(all_blocks) : all_blocks[i].task_id = Some(best_task[1].id)}
    IN  IF mine = {} THEN <<>>
        ELSE SubSeq(all_blocks, CHOOSE i \in mine : \A j \in mine : i <= j, Len(all_blocks))

\* C20: when the task being placed is the only one left in the pool and needs
\* c cycles, its placement is c work blocks with a break between each two and
\* none after the last: 2c - 1 blocks, work and break in turn (on the
\* WellFormed requests).
C20_LastTaskBlocks ==
    (LeavingInnerLoop /\ Len(tasks) = 1 /\ WellFormed) =>
        /\ Len(PlacementBlocks) = 2 * CyclesNeeded - 1
        /\ \A i \in 1..Len(PlacementBlocks) :
              IF i % 2 = 1
              THEN /\ PlacementBlocks[i].type = "pomodoro"
                   /\ PlacementBlocks[i].task_id = Some(best_task[1].id)
              ELSE PlacementBlocks[i].type \in {"break", "long_break"}

----------------------------------------------------------------------------
(* Further properties of plan_day's result and of its packing loop.        *)

\* minutes taken by the returned blocks that are not events
NonEventMinutes ==
    SumOver({i \in 1..Len(Blocks) : Blocks[i].type # "event"},
            [i \in 1..Len(Blocks) |-> Blocks[i].end - Blocks[i].start])

WorkdayMinutes == prefs.workday_end - prefs.workday_start

\* C21: summary.free_time_minutes is the workday's minutes less the minutes of
\* all non-event blocks when that is positive, and 0 otherwise; it is never
\* negative.
C21_FreeTimeClamped ==
    Returned =>
        /\ SummaryOut.free_time_minutes >= 0
        /\ IF NonEventMinutes >= WorkdayMinutes
           THEN SummaryOut.free_time_minutes = 0
           ELSE SummaryOut.free_time_minutes = WorkdayMinutes - NonEventMinutes

\* the generated blocks add up to more than a workday that is not empty
C21_Witness ==
    /\ Returned
    /\ WorkdayMinutes > 0
    /\ NonEventMinutes > WorkdayMinutes
    /\ SummaryOut.free_time_minutes = 0

\* an iteration of the inner loop has appended its blocks
CyclePlaced == pc = "cycle" /\ all_blocks' # all_blocks

\* the block appended last by that iteration is a break starting where the work block ended
BreakEmitted ==
    LET last == all_blocks'[Len(all_blocks')]
    IN  /\ last.type \in {"break", "long_break"}
        /\ last.start = AfterWork

\* the work block being placed is the last cycle of the only task left in the pool
LastCycleOfLastTask == cycle = CyclesNeeded - 1 /\ Len(tasks) = 1

\* two work blocks, one appended right after the other, the second starting
\* where the first ends
AdjacentWorkBlocks(blocks) ==
    \E i \in 1..(Len(blocks) - 1) :
        /\ blocks[i].type = "pomodoro"
        /\ blocks[i + 1].type = "pomodoro"
        /\ blocks[i].end = blocks[i + 1].start

\* C22, first half: a work block is followed by a break whenever the cursor is
\* before free_end, unless it is the last cycle of the only task left.
BreakUnlessLastOfLast ==
    (CyclePlaced /\ WellFormed /\ AfterWork < free_end /\ ~LastCycleOfLastTask)
        => BreakEmitted

\* C22: after each work block a break is emitted when the cursor is before
\* free_end, unless the work block is the last cycle of the last task left in
\* the pool; so no two work blocks are adjacent without a break between them
\* (on the WellFormed requests).
C22_BreakAfterWork ==
    /\ [][BreakUnlessLastOfLast]_vars
    /\ [](WellFormed => ~AdjacentWorkBlocks(all_blocks))

\* planner.py:191-192: the guard is about to leave the inner loop before a cycle
GuardFires == pc = "cycle" /\ cycle < CyclesNeeded /\ current_time >= free_end

\* C23: while a task that passed the fit check is being placed, the cursor
\* never passes free_end, every block of the placement ends at or before
\* free_end, and the guard before a cycle never fires (on the WellFormed
\* requests).
C23_PlacementInsideInterval ==
    (pc = "cycle" /\ WellFormed) =>
        /\ current_time <= free_end
        /\ \A i \in 1..Len(PlacementBlocks) : PlacementBlocks[i].end <= free_end
        /\ ~GuardFires

\* a task has just been selected: the cursor is still where the scan used it
JustSelected == pc = "cycle" /\ cycle = 0

\* the pooled tasks that pass the fit check at the cursor
Candidates == {t \in Range(tasks) : Fits(t, current_time, free_end)}

\* the candidates with the highest score at the cursor
TopCandidates ==
    {t \in Candidates :
        \A u \in Candidates :
            calculate_task_score(t, current_time) >= calculate_task_score(u, current_time)}

\* position of a task in a list of tasks with distinct ids, counted from 1
PositionIn(list, t) == CHOOSE i \in 1..Len(list) : list[i] = t

ScoreAtStart(t) == calculate_task_score(t, prefs.workday_start)

\* C24 (as stated): among the candidates that share the highest score at the
\* cursor, the one placed is the first in the request's task list (on the
\* WellFormed requests).
C24_TieByInputOrder ==
    (JustSelected /\ WellFormed) =>
        /\ best_task[1] \in TopCandidates
        /\ \A t \in TopCandidates :
              PositionIn(request.tasks, best_task[1]) <= PositionIn(request.tasks, t)

\* C24 (amended): among the candidates that share the highest score at the
\* cursor, the one placed is the first in the pool, and the pool is ordered by
\* descending score at workday_start, input order among equal scores.
C24_TieByPoolOrder ==
    JustSelected =>
        /\ best_task[1] \in TopCandidates
        /\ \A t \in TopCandidates :
              PositionIn(tasks, best_task[1]) <= PositionIn(tasks, t)
        /\ \A t \in Range(tasks) : \A u \in Range(tasks) :
              PositionIn(tasks, t) < PositionIn(tasks, u) =>
                  \/ ScoreAtStart(t) > ScoreAtStart(u)
                  \/ /\ ScoreAtStart(t) = ScoreAtStart(u)
                     /\ PositionIn(request.tasks, t) < PositionIn(request.tasks, u)

\* two candidates tie at the cursor and the one placed comes later in the
\* request's list: it scored higher at workday_start
C24_Witness ==
    /\ JustSelected
    /\ WellFormed
    /\ Cardinality(TopCandidates) = 2
    /\ \E t \in TopCandidates :
          /\ PositionIn(request.tasks, t) < PositionIn(request.tasks, best_task[1])
          /\ ScoreAtStart(t) < ScoreAtStart(best_task[1])

----------------------------------------------------------------------------
(* plan_day beside the same procedure without the sort of planner.py:127:  *)
(* the first call on a request is plan_day, the second call starts from    *)
(* the task list in its input order.                                       *)

\* planner.py:126-158 with line 127 replaced by tasks = list(request.tasks)
PlanDayStartUnsorted ==
    /\ pc = "call"
    /\ tasks' = request.tasks
    /\ free_intervals' = subtract_busy_time(<<prefs.workday_start, prefs.workday_end>>,
                                            BusyIntervals(request.events))
    /\ all_blocks' = EventBlocks(request.events)
    /\ scheduled_task_ids' = {}
    /\ current_cycle_count' = 0
    /\ interval_idx' = 0
    /\ pc' = "for_interval"
    /\ UNCHANGED <<timer_vars, arg, result, request, call, free_end, current_time, best_task, cycle,
                   response, raised, first_outcome>>

NextUnsorted ==
    \/ call = 1 /\ PlanDayStart
    \/ call = 2 /\ PlanDayStartUnsorted
    \/ NextFreeInterval
    \/ WhileExit
    \/ NoTaskFits
    \/ SelectTask
    \/ PlaceCycle
    \/ RaiseInCycle
    \/ FinishTask
    \/ GuardBreak
    \/ Summarize
    \/ CallAgain

SpecUnsorted == Init /\ [][NextUnsorted]_vars

\* the second run has ended, the first one's outcome is on record
BothEnded == call = 2 /\ pc \in {"done", "raised"}

SameOutcome == <<response, raised>> = first_outcome[1]

\* the request's tasks are already in the order the sort would give them
AlreadySorted ==
    \A i \in 1..(Len(request.tasks) - 1) :
        ScoreAtStart(request.tasks[i]) >= ScoreAtStart(request.tasks[i + 1])

C26_BestAtCursor ==
    JustSelected =>
        /\ best_task[1] \in Candidates
        /\ \A t \in Candidates :
              calculate_task_score(best_task[1], current_time)
                  >= calculate_task_score(t, current_time)

\* the task placed is best at the cursor and was not best at workday_start
C26_Witness ==
    /\ JustSelected
    /\ WellFormed
    /\ \E t \in Candidates :
          /\ ScoreAtStart(t) >= ScoreAtStart(best_task[1])
          /\ PositionIn(tasks, t) < PositionIn(tasks, best_task[1])
          /\ calculate_task_score(t, current_time)
                 < calculate_task_score(best_task[1], current_time)

\* ceil(estimate_min / pomodoro_min) * (pomodoro_min + break_min) <= free_end - cursor
HasRoom(t) ==
    LET cycles == CHOOSE c \in 1..t.estimate_min :
                      /\ c * prefs.pomodoro_min >= t.estimate_min
                      /\ (c - 1) * prefs.pomodoro_min < t.estimate_min
    IN  cycles * (prefs.pomodoro_min + prefs.break_min) <= free_end - current_time

\* the packing loop has left a free interval
IntervalAbandoned == pc = "for_interval" /\ interval_idx > 0

\* C27: the task placed has room at the cursor when it is selected; while the
\* loop is at the cursor and some pooled task has room, a task is selected;
\* and a free interval is left only when no pooled task has room.
C27_PlacedIffRoom ==
    /\ JustSelected => HasRoom(best_task[1])
    /\ (pc = "while" /\ \E t \in Range(tasks) : HasRoom(t)) => ENABLED SelectTask
    /\ IntervalAbandoned => \A t \in Range(tasks) : ~HasRoom(t)

\* a free interval left before its end with a task in the pool that has no
\* room there, after another task was placed
C27_Witness ==
    /\ IntervalAbandoned
    /\ tasks # <<>>
    /\ current_time < free_end
    /\ scheduled_task_ids # {}
    /\ \A t \in Range(tasks) : ~HasRoom(t)

\* how many work blocks of all_blocks start before block i: the generated
\* blocks are appended with increasing starts, so this is the number of work
\* blocks of the day emitted before block i
WorkBlocksBefore(i) ==
    Cardinality({j \in 1..Len(all_blocks) :
                    /\ all_blocks[j].type = "pomodoro"
                    /\ all_blocks[j].start < all_blocks[i].start})

\* C28: a break block emitted after the k-th work block of the day, k counted
\* over all tasks and all free intervals, is a long_break of long_break_min
\* minutes if k is a multiple of cycles_per_long_break and a break of break_min
\* minutes otherwise; every work block lasts pomodoro_min minutes.
C28_GlobalCadence ==
    \A i \in 1..Len(all_blocks) :
        LET b == all_blocks[i]
        IN  /\ b.type = "pomodoro" => b.end - b.start = prefs.pomodoro_min
            /\ b.type \in {"break", "long_break"} =>
                  /\ prefs.cycles_per_long_break # 0
                  /\ IF WorkBlocksBefore(i) % prefs.cycles_per_long_break = 0
                     THEN b.type = "long_break" /\ b.end - b.start = prefs.long_break_min
                     ELSE b.type = "break" /\ b.end - b.start = prefs.break_min

\* a long break after the second work block of the day, the first two work
\* blocks belonging to different tasks and lying on either side of an event
C28_Witness ==
    /\ Returned
    /\ prefs.cycles_per_long_break = 2
    /\ prefs.long_break_min # prefs.break_min
    /\ \E i \in 1..Len(all_blocks) : \E j \in 1..Len(all_blocks) : \E m \in 1..Len(all_blocks) :
          /\ all_blocks[i].type = "long_break"
          /\ \E e \in 1..Len(all_blocks) :
                /\ all_blocks[e].type = "event"
                /\ all_blocks[j].start < all_blocks[e].start
                /\ all_blocks[e].start < all_blocks[m].start
          /\ WorkBlocksBefore(i) = 2
          /\ all_blocks[j].type = "pomodoro"
          /\ all_blocks[m].type = "pomodoro"
          /\ all_blocks[j].start < all_blocks[m].start
          /\ all_blocks[m].start < all_blocks[i].start
          /\ all_blocks[j].task_id # all_blocks[m].task_id

\* plan_day is between its set-up and its return
Packing == pc \in {"for_interval", "while", "cycle"}

\* every task of the request is in the pool or marked scheduled, never both
PoolOrScheduled ==
    \A t \in RequestTasks : (t \in Range(tasks)) # (t.id \in scheduled_task_ids)

\* leaving a free interval changes neither the pool nor the scheduled ids
LeavingKeepsPool ==
    (pc = "while" /\ pc' = "for_interval") =>
        /\ tasks' = tasks
        /\ scheduled_task_ids' = scheduled_task_ids

\* in any free interval, a pooled task with room that outscores every other
\* pooled task with room is the one selected next
BestWithRoomIsSelected ==
    \A t \in Range(tasks) :
        (/\ pc = "while"
         /\ HasRoom(t)
         /\ \A u \in Range(tasks) \ {t} :
               HasRoom(u) => calculate_task_score(u, current_time)
                                 < calculate_task_score(t, current_time))
            => (pc' = "cycle" /\ best_task' = Some(t))

\* C29: the pool persists across free intervals: a task without room in the
\* rest of a free interval stays in the pool and is not marked scheduled; in
\* a later interval it is selected once it is the best-scoring task with room;
\* and when plan_day returns, the pool holds exactly the tasks it reports as
\* unscheduled, which are the tasks without a work block.
C29_PoolPersists ==
    /\ [](Packing => PoolOrScheduled)
    /\ [][LeavingKeepsPool]_vars
    /\ [][BestWithRoomIsSelected]_vars
    /\ [](Returned =>
            /\ SummaryOut.unscheduled_tasks = [i \in 1..Len(tasks) |-> tasks[i].title]
            /\ \A t \in RequestTasks : (t \in Range(tasks)) = (PomodorosOf(t) = {}))

\* nothing could be placed in the first free interval although it is not
\* empty, and the task that had no room there is selected in the second
C29_Witness ==
    /\ JustSelected
    /\ interval_idx = 2
    /\ scheduled_task_ids = {}
    /\ free_intervals[1][1] < free_intervals[1][2]
    /\ TimeNeeded(best_task[1]) > free_intervals[1][2] - free_intervals[1][1]

\* the starts of a list of blocks never decrease
AscendingStarts(blocks) ==
    \A i \in 1..(Len(blocks) - 1) : blocks[i].start <= blocks[i + 1].start

Generated(blocks) == BlocksOfType(blocks, GeneratedTypes)

\* planner.py:221: the step that sorts and returns
Sorting == pc = "for_interval" /\ pc' = "done"

\* C30: the returned blocks are in ascending order of start; the generated
\* blocks are appended in non-decreasing order of start, and the final sort
\* leaves them in the order they were appended, moving event blocks only.
C30_SortInterleavesEvents ==
    /\ [](Returned => AscendingStarts(Blocks))
    /\ [](Packing => AscendingStarts(Generated(all_blocks)))
    /\ [][Sorting => Generated(all_blocks') = Generated(all_blocks)]_vars

\* the sort has moved an event block behind a generated block
C30_Witness ==
    /\ Returned
    /\ \E i \in 1..Len(Blocks) : \E j \in 1..Len(Blocks) :
          /\ i < j
          /\ Blocks[i].type \in GeneratedTypes
          /\ Blocks[j].type = "event"
          /\ Blocks[i].start < Blocks[j].start

----------------------------------------------------------------------------
(* The request as plan_day leaves it, and properties of the whole packing. *)

\* C31: no step of plan_day changes the request: tasks (elements and order),
\* events and preferences stay as given, and the tasks removed from the pool
\* during packing are still in request.tasks when plan_day returns.
C31_RequestReadOnly ==
    /\ [][request' = request]_vars
    /\ [](Returned =>
            /\ Len(request.tasks) = Len(tasks) + Cardinality(scheduled_task_ids)
            /\ \A id \in scheduled_task_ids : \E t \in RequestTasks : t.id = id)

\* plan_day has returned after removing a task from its pool, and the pool's
\* order was not the request's
C31_Witness ==
    /\ Returned
    /\ Len(request.tasks) = 2
    /\ Len(tasks) = 1
    /\ request.tasks[1] = tasks[1]
    /\ request.tasks[2].id \in scheduled_task_ids

\* no two generated blocks of a list overlap (the list in the order appended)
GeneratedDisjoint(blocks) ==
    \A i \in 1..Len(blocks) : \A j \in (i + 1)..Len(blocks) :
        blocks[i].end <= blocks[j].start

\* C32: when long_break_min <= break_min, every selected task gets all its
\* ceil(estimate_min / pomodoro_min) work blocks, every generated block ends
\* at or before the end of the free interval it was placed in, and no two
\* generated blocks overlap.
C32_ShortLongBreakIsSafe ==
    prefs.long_break_min <= prefs.break_min =>
        /\ LeavingInnerLoop =>
              /\ cycle = CyclesNeeded
              /\ Len(BlocksOfType(PlacementBlocks, {"pomodoro"}))
                    = Ceil(best_task[1].estimate_min, prefs.pomodoro_min)
        /\ pc = "cycle" =>
              \A i \in 1..Len(PlacementBlocks) : PlacementBlocks[i].end <= free_end
        /\ (Packing \/ Returned) => GeneratedDisjoint(Generated(all_blocks))
        /\ Returned =>
              \A t \in RequestTasks :
                  t.id \in scheduled_task_ids =>
                      Cardinality(PomodorosOf(t)) = Ceil(t.estimate_min, prefs.pomodoro_min)

\* two tasks placed in full, one of them in several cycles, with long breaks
\* no longer than the short ones
C32_Witness ==
    /\ Returned
    /\ prefs.long_break_min <= prefs.break_min
    /\ Cardinality(scheduled_task_ids) = 2
    /\ \E i \in 1..Len(Blocks) : Blocks[i].type = "long_break"
    /\ \E t \in RequestTasks :
          /\ Ceil(t.estimate_min, prefs.pomodoro_min) >= 2
          /\ Cardinality(PomodorosOf(t)) = Ceil(t.estimate_min, prefs.pomodoro_min)

\* where the cursor stood when free interval k was left: the end of the last
\* block placed in it, or its start when nothing was placed there
TailStart(k) ==
    LET placed == {i \in 1..Len(all_blocks) :
                      /\ all_blocks[i].type \in GeneratedTypes
                      /\ free_intervals[k][1] <= all_blocks[i].start
                      /\ all_blocks[i].start < free_intervals[k][2]}
    IN  IF placed = {} THEN free_intervals[k][1]
        ELSE CHOOSE e \in {all_blocks[i].end : i \in placed} :
                 \A i \in placed : all_blocks[i].end <= e

\* ceil(estimate_min / pomodoro_min) * (pomodoro_min + break_min)
MinutesReserved(t) ==
    Ceil(t.estimate_min, prefs.pomodoro_min) * (prefs.pomodoro_min + prefs.break_min)

\* C33: when plan_day returns, no task left in the pool passes the fit check
\* against the unused tail of any free interval, from where the cursor stood
\* when the interval was left to the interval's end.
C33_MaximalForFitCheck ==
    Returned =>
        \A k \in 1..Len(free_intervals) : \A t \in Range(tasks) :
            ~(MinutesReserved(t) <= free_intervals[k][2] - TailStart(k))

\* a task is left unscheduled although a free interval has an unused tail of
\* ten minutes or more behind a placed task
C33_Witness ==
    /\ Returned
    /\ tasks # <<>>
    /\ scheduled_task_ids # {}
    /\ \E k \in 1..Len(free_intervals) :
          /\ TailStart(k) > free_intervals[k][1]
          /\ free_intervals[k][2] - TailStart(k) >= 10

----------------------------------------------------------------------------
(* Termination of plan_day. plan_day is sequential code without awaits:    *)
(* once called, each of its steps is taken, which weak fairness of Next    *)
(* states.                                                                 *)

FairSpec == Init /\ [][Next]_vars /\ WF_vars(Next)

\* plan_day has returned or raised
Ended == pc \in {"done", "raised"}

\* the body of the while loop at planner.py:163 has come back to the loop test
IterationEnds == pc = "cycle" /\ pc' = "while"

\* C34: plan_day never runs forever, each call of it ends; an iteration of the loop over a free
\* interval either leaves the loop or comes back to the loop test with exactly
\* one task, the selected one, removed from the pool; the task selected is in
\* the pool and was not placed before, so the placements never outnumber the
\* request's tasks.
C34_Terminates ==
    /\ []<>Ended
    /\ [][/\ IterationEnds =>
                /\ Len(tasks') = Len(tasks) - 1
                /\ Range(tasks') = Range(tasks) \ {best_task[1]}
                /\ scheduled_task_ids' = scheduled_task_ids \cup {best_task[1].id}
          /\ pc = "while" =>
                \/ pc' = "for_interval"
                \/ /\ pc' = "cycle"
                   /\ best_task'[1] \in Range(tasks)
                   /\ best_task'[1].id \notin scheduled_task_ids
          /\ ~IterationEnds => tasks' = tasks \/ pc = "call"]_vars
    /\ [](Packing =>
            Cardinality(scheduled_task_ids) + Len(tasks) = Len(request.tasks))

\* both tasks of a request were placed, one iteration each, and plan_day returned
C34_Witness ==
    /\ Returned
    /\ Len(request.tasks) = 2
    /\ Cardinality(scheduled_task_ids) = 2
    /\ tasks = << >>

----------------------------------------------------------------------------
(* aida/timer.py and the timer endpoints of aida/api.py.                   *)
(*                                                                         *)
(* The endpoints are async functions without an await: each runs to its    *)
(* end on the event loop.  PomodoroTimer.start and .resume are plain       *)
(* functions handed to BackgroundTasks, which runs them on worker threads  *)
(* after the response; a thread can be preempted between any two of its    *)
(* statements, so each statement that reads or writes the shared           *)
(* TimerState is a step of its own.  plan_day's variables stay idle.       *)

MaxBlocks == 2      \* blocks in a timer's list
MaxTimers == 1      \* PomodoroTimer objects created
MaxLoops == 2       \* executions of start / resume begun

SecondsPerMinute == 60

\* models.py:129-136 (paused_duration and current_block_actual_start are
\* never written)
TimerState ==
    [current_block_index |-> 0, is_running |-> FALSE, start_time |-> None,
     completed_blocks |-> <<>>]

\* timer.py:14-21
PomodoroTimer(blocks) == [blocks |-> blocks, state |-> TimerState]

\* the blocks a timer is given: one-minute work blocks and events
TimerBlocks ==
    {Block(690, 691, "pomodoro", "[tomato] Task 1", Some("task-1")),
     Block(691, 692, "event", "[calendar] Meeting", None)}

BlockLists == UNION {[1..n -> TimerBlocks] : n \in 0..MaxBlocks}

StartIndexes == {-1, 0}

\* Python's list indexing: blocks[i] counts from the end for a negative i
InIndexRange(blocks, i) == -Len(blocks) <= i /\ i < Len(blocks)
PyIndex(blocks, i) == IF i >= 0 THEN blocks[i + 1] ELSE blocks[Len(blocks) + i + 1]

\* an execution of a background task, before its first step.  A local
\* (start_index, current_block, remaining) is None outside the statements
\* that read it.
Execution(k, at, start_index) ==
    [timer |-> k, at |-> at, start_index |-> start_index, current_block |-> None,
     remaining |-> None, exc |-> None]

TimerOf(l) == timers[loops[l].timer]
StateOf(l) == TimerOf(l).state

\* loop l moves on as record r, and its timer's state becomes s
Step(l, r, s) ==
    /\ loops' = [loops EXCEPT ![l] = r]
    /\ timers' = [timers EXCEPT ![loops[l].timer].state = s]
    /\ UNCHANGED <<current_timer, reply, pc, arg, result>>
    /\ PlanDayUntouched

\* timer.py:184-188
Resume(l) ==
    /\ loops[l].at = "resume"
    /\ IF ~StateOf(l).is_running
          /\ StateOf(l).current_block_index < Len(TimerOf(l).blocks)
       THEN Step(l, [loops[l] EXCEPT !.at = "start",
                                     !.start_index = Some(StateOf(l).current_block_index)],
                 StateOf(l))
       ELSE Step(l, [loops[l] EXCEPT !.at = "returned"], StateOf(l))

\* timer.py:101-116
Start(l) ==
    /\ loops[l].at = "start"
    /\ LET start_index == loops[l].start_index[1]
       IN  IF TimerOf(l).blocks = <<>> \/ start_index >= Len(TimerOf(l).blocks)
           THEN Step(l, [loops[l] EXCEPT !.at = "returned", !.start_index = None], StateOf(l))
           ELSE Step(l, [loops[l] EXCEPT !.at = "while", !.start_index = None],
                     [StateOf(l) EXCEPT !.current_block_index = start_index,
                                        !.is_running = TRUE,
                                        !.start_time = Some("now")])

\* timer.py:119-135: the loop test, an event's entry, or a block's start
While(l) ==
    /\ loops[l].at = "while"
    /\ LET blocks == TimerOf(l).blocks
           index == StateOf(l).current_block_index
       IN  IF index < Len(blocks) /\ StateOf(l).is_running
           THEN IF ~InIndexRange(blocks, index)
                THEN Step(l, [loops[l] EXCEPT !.at = "finally", !.exc = Some("IndexError")],
                          StateOf(l))
                ELSE IF PyIndex(blocks, index).type = "event"
                THEN Step(l, [loops[l] EXCEPT !.at = "event"],
                          [StateOf(l) EXCEPT !.completed_blocks = Append(@, index)])
                ELSE Step(l, [loops[l] EXCEPT
                                 !.at = "countdown",
                                 !.current_block = Some(index),
                                 !.remaining = Some(duration_minutes(PyIndex(blocks, index))
                                                       * SecondsPerMinute)],
                          StateOf(l))
           ELSE Step(l, [loops[l] EXCEPT !.at = "finally"], StateOf(l))

\* timer.py:127-128
EventDone(l) ==
    /\ loops[l].at = "event"
    /\ Step(l, [loops[l] EXCEPT !.at = "while"],
            [StateOf(l) EXCEPT !.current_block_index = @ + 1])

\* timer.py:161-172: a minute of the countdown, sixty rounds of its loop in
\* which is_running stays True
Countdown(l) ==
    /\ loops[l].at = "countdown"
    /\ loops[l].remaining[1] > 0
    /\ StateOf(l).is_running
    /\ Step(l, [loops[l] EXCEPT !.remaining = Some(@[1] - SecondsPerMinute)], StateOf(l))

\* timer.py:161: the countdown's loop ends
CountdownEnds(l) ==
    /\ loops[l].at = "countdown"
    /\ ~(loops[l].remaining[1] > 0 /\ StateOf(l).is_running)
    /\ Step(l, [loops[l] EXCEPT !.at = "end_block"], StateOf(l))

\* timer.py:138-140
EndBlock(l) ==
    /\ loops[l].at = "end_block"
    /\ IF StateOf(l).is_running
       THEN Step(l, [loops[l] EXCEPT !.at = "completed", !.current_block = None,
                                     !.remaining = None],
                 [StateOf(l) EXCEPT
                     !.completed_blocks = Append(@, StateOf(l).current_block_index)])
       ELSE Step(l, [loops[l] EXCEPT !.at = "while", !.current_block = None,
                                     !.remaining = None],
                 StateOf(l))

\* timer.py:141-145
NextBlock(l) ==
    /\ loops[l].at = "completed"
    /\ LET index == StateOf(l).current_block_index + 1
       IN  Step(l, [loops[l] EXCEPT
                       !.at = IF index < Len(TimerOf(l).blocks) THEN "input" ELSE "while"],
                [StateOf(l) EXCEPT !.current_block_index = index])

\* timer.py:146: input() returns a line
InputReturns(l) ==
    /\ loops[l].at = "input"
    /\ Step(l, [loops[l] EXCEPT !.at = "while"], StateOf(l))

\* timer.py:146: input() finds the standard input closed
InputRaises(l) ==
    /\ loops[l].at = "input"
    /\ Step(l, [loops[l] EXCEPT !.at = "finally", !.exc = Some("EOFError")], StateOf(l))

\* timer.py:154-155
Finally(l) ==
    /\ loops[l].at = "finally"
    /\ Step(l, [loops[l] EXCEPT !.at = IF loops[l].exc = None THEN "returned" ELSE "raised",
                                 !.exc = None],
            [StateOf(l) EXCEPT !.is_running = FALSE])

\* an endpoint answers with a status and changes nothing else
Answer(status) ==
    /\ reply' = Some(status)
    /\ UNCHANGED <<current_timer, timers, loops>>

TimerRunning == current_timer # None /\ timers[current_timer[1]].state.is_running

\* the state of the global timer becomes s
SetState(s) == timers' = [timers EXCEPT ![current_timer[1]].state = s]

GlobalState == timers[current_timer[1]].state

\* api.py:125-160
start_timer(blocks, start_index) ==
    /\ IF TimerRunning THEN Answer(409)
       ELSE IF start_index >= Len(blocks) THEN Answer(400)
       ELSE /\ Len(timers) < MaxTimers
            /\ Len(loops) < MaxLoops
            /\ timers' = Append(timers, PomodoroTimer(blocks))
            /\ current_timer' = Some(Len(timers) + 1)
            /\ loops' = Append(loops, Execution(Len(timers) + 1, "start", Some(start_index)))
            /\ reply' = Some(200)
    /\ UNCHANGED <<pc, arg, result>>
    /\ PlanDayUntouched

\* api.py:163-176, timer.py:174-177
stop_timer ==
    /\ IF current_timer = None THEN Answer(404)
       ELSE /\ SetState([GlobalState EXCEPT !.is_running = FALSE])
            /\ reply' = Some(200)
            /\ UNCHANGED <<current_timer, loops>>
    /\ UNCHANGED <<pc, arg, result>>
    /\ PlanDayUntouched

\* api.py:179-195, timer.py:179-182
pause_timer ==
    /\ IF current_timer = None THEN Answer(404)
       ELSE IF ~GlobalState.is_running THEN Answer(400)
       ELSE /\ SetState([GlobalState EXCEPT !.is_running = FALSE])
            /\ reply' = Some(200)
            /\ UNCHANGED <<current_timer, loops>>
    /\ UNCHANGED <<pc, arg, result>>
    /\ PlanDayUntouched

\* api.py:198-215
resume_timer ==
    /\ IF current_timer = None THEN Answer(404)
       ELSE IF GlobalState.is_running THEN Answer(400)
       ELSE /\ Len(loops) < MaxLoops
            /\ loops' = Append(loops, Execution(current_timer[1], "resume", None))
            /\ reply' = Some(200)
            /\ UNCHANGED <<current_timer, timers>>
    /\ UNCHANGED <<pc, arg, result>>
    /\ PlanDayUntouched

\* api.py:243-261, timer.py:190-196
skip_current_block ==
    /\ IF current_timer = None THEN Answer(404)
       ELSE IF ~GlobalState.is_running THEN Answer(400)
       ELSE /\ IF GlobalState.current_block_index < Len(timers[current_timer[1]].blocks)
               THEN SetState([GlobalState EXCEPT
                                 !.completed_blocks = Append(@, GlobalState.current_block_index),
                                 !.current_block_index = @ + 1])
               ELSE UNCHANGED timers
            /\ reply' = Some(200)
            /\ UNCHANGED <<current_timer, loops>>
    /\ UNCHANGED <<pc, arg, result>>
    /\ PlanDayUntouched

InitTimer ==
    /\ pc = "serving"
    /\ arg = None
    /\ result = None
    /\ PlanDayIdle
    /\ NoTimer

NextTimer ==
    \/ \E blocks \in BlockLists, start_index \in StartIndexes : start_timer(blocks, start_index)
    \/ stop_timer
    \/ pause_timer
    \/ resume_timer
    \/ skip_current_block
    \/ \E l \in 1..Len(loops) : Resume(l)
    \/ \E l \in 1..Len(loops) : Start(l)
    \/ \E l \in 1..Len(loops) : While(l)
    \/ \E l \in 1..Len(loops) : EventDone(l)
    \/ \E l \in 1..Len(loops) : Countdown(l)
    \/ \E l \in 1..Len(loops) : CountdownEnds(l)
    \/ \E l \in 1..Len(loops) : EndBlock(l)
    \/ \E l \in 1..Len(loops) : NextBlock(l)
    \/ \E l \in 1..Len(loops) : InputReturns(l)
    \/ \E l \in 1..Len(loops) : InputRaises(l)
    \/ \E l \in 1..Len(loops) : Finally(l)

SpecTimer == InitTimer /\ [][NextTimer]_vars

----------------------------------------------------------------------------
(* Properties of the timer under the interleavings of the service.         *)

Completed(k) == timers[k].state.completed_blocks

\* timer k's completed_blocks changes in this step
Appends(k) == k <= Len(timers) /\ timers'[k].state.completed_blocks # Completed(k)

\* the index this step appends to timer k's completed_blocks
Appended(k) ==
    timers'[k].state.completed_blocks[Len(timers'[k].state.completed_blocks)]

\* the step is loop l's, ending a block whose countdown ran down to zero
OwnCountdownRan(k, l, index) ==
    /\ loops[l].timer = k
    /\ loops[l].at = "end_block"
    /\ loops'[l].at = "completed"
    /\ loops[l].current_block = Some(index)
    /\ loops[l].remaining = Some(0)

\* the step is the skip endpoint's, called while index was the current block
SkipCalledAt(k, index) ==
    /\ loops' = loops
    /\ current_timer = Some(k)
    /\ timers[k].state.current_block_index = index

\* the timer was started at a block of its list
StartedInRange(k) ==
    /\ timers[k].state.current_block_index >= 0
    /\ \A i \in 1..Len(Completed(k)) : Completed(k)[i] >= 0

NoDuplicates(s) == \A i \in 1..Len(s) : \A j \in 1..Len(s) : s[i] = s[j] => i = j

\* C35: an index is appended to completed_blocks only if it is an event's, or
\* the countdown of that very block ran to its end in the loop that appends
\* it, or it was the current block when skip was called; and no index is
\* appended twice.
C35_CompletedOnlyIfRunOrSkipped ==
    /\ [][\A k \in 1..Len(timers) :
            (StartedInRange(k) /\ Appends(k)) =>
                /\ timers'[k].state.completed_blocks = Append(Completed(k), Appended(k))
                /\ \/ /\ InIndexRange(timers[k].blocks, Appended(k))
                      /\ PyIndex(timers[k].blocks, Appended(k)).type = "event"
                   \/ \E l \in 1..Len(loops) : OwnCountdownRan(k, l, Appended(k))
                   \/ SkipCalledAt(k, Appended(k))]_vars
    /\ [](\A k \in 1..Len(timers) : StartedInRange(k) => NoDuplicates(Completed(k)))

\* the positions of an execution inside the try block of start (timer.py:118-155)
InsideLoop == {"while", "event", "countdown", "end_block", "completed", "input", "finally"}

\* the executions of the start loop that are under way on timer k
ActiveLoops(k) == {l \in 1..Len(loops) : loops[l].timer = k /\ loops[l].at \in InsideLoop}

\* C36: at most one execution of the start loop is under way on the global
\* timer, and while the timer is running no request hands a further start or
\* resume to the background (start answers 409, resume 400).
C36_OneLoopAtATime ==
    /\ [](current_timer # None => Cardinality(ActiveLoops(current_timer[1])) <= 1)
    /\ [][TimerRunning => /\ Len(loops') = Len(loops)
                          /\ current_timer' = current_timer]_vars

\* loop l left the countdown of its block before the end: pause() or stop()
\* had cleared is_running when the countdown looked (timer.py:161)
Interrupted(l) == loops[l].at = "end_block" /\ loops[l].remaining[1] > 0

\* the step is loop l's
StepOf(l) == loops'[l] # loops[l]

\* C37: the loop of a block interrupted by pause() or stop() goes on without
\* adding to completed_blocks and without moving current_block_index; start()
\* leaves is_running False when it returns; resume() restarts at the index
\* current_block_index holds.
C37_InterruptedBlockStays ==
    [][\A l \in 1..Len(loops) :
          /\ (Interrupted(l) /\ StepOf(l)) =>
                /\ timers'[loops[l].timer].state.completed_blocks
                      = StateOf(l).completed_blocks
                /\ timers'[loops[l].timer].state.current_block_index
                      = StateOf(l).current_block_index
          /\ (loops[l].at = "finally" /\ StepOf(l)) =>
                ~timers'[loops[l].timer].state.is_running
          /\ (loops[l].at = "resume" /\ loops'[l].at = "start") =>
                loops'[l].start_index = Some(StateOf(l).current_block_index)]_vars

\* 0 <= start_index < len(blocks) for the start that loop l is about to make
StartIndexInRange(l) ==
    /\ 0 <= loops[l].start_index[1]
    /\ loops[l].start_index[1] < Len(TimerOf(l).blocks)

\* C38: start(start_index) with an empty block list, or with a start_index
\* that is negative or too large, returns at once: it enters no block and
\* leaves the TimerState as it was.
C38_StartNeedsIndexInRange ==
    [][\A l \in 1..Len(loops) :
          (loops[l].at = "start" /\ StepOf(l) /\ ~StartIndexInRange(l)) =>
              /\ loops'[l].at = "returned"
              /\ timers' = timers]_vars

====
